---- MODULE Spec2Model ----
(***************************************************************************)
(* Model of rpi-lib/examples-api-use/clock-weather.cc: the JSON value      *)
(* extractor (extractJsonValue), the weather fetch (fetchWeather) and the  *)
(* once-per-second render loop of main().                                  *)
(*                                                                         *)
(* A std::string is a sequence of one-character strings.  C++ positions    *)
(* are 0-based; the model's are 1-based, so C++ position p is index p+1    *)
(* and std::string::npos is NPOS (0, no index).                            *)
(***************************************************************************)
EXTENDS Integers, Sequences, FiniteSets, TLC

\* ------------------------------------------------------------------ bounds

\* Number of loop iterations the model lets main() start.
MaxTicks == 3
\* Startup times time(NULL) ranges over 1..MaxStart.
MaxStart == 2
\* --weather-refresh ranges over 0..MaxRefresh.
MaxRefresh == 2
\* Members of a generated flat JSON object.
MaxMembers == 3
\* Tokens of a generated token document.
MaxTokens == 5

\* ------------------------------------------------------- std::string model

NPOS == 0

Q == "\""
BS == "\\"
NL == "\n"
TAB == "\t"
CR == "\r"

\* s.compare(i, pat.length(), pat) == 0
MatchAt(s, pat, i) ==
  /\ i + Len(pat) - 1 <= Len(s)
  /\ \A k \in 1..Len(pat) : s[i + k - 1] = pat[k]

\* std::string::find(pat, from): the first index >= from where pat occurs.
Find(s, pat, from) ==
  LET hits == {i \in from..Len(s) : MatchAt(s, pat, i)}
  IN  IF hits = {} THEN NPOS ELSE CHOOSE i \in hits : \A j \in hits : i <= j

\* std::string::substr(pos, n), with pos and the exclusive end as indexes.
Substr(s, pos, end) == SubSeq(s, pos, end - 1)

Quoted(w) == <<Q>> \o w \o <<Q>>

\* ------------------------------------------------------- extractJsonValue

\* The brace-matching loop: i runs from pos, end_pos starts as pos and is
\* set to i + 1 at the '}' that brings brace_count back to 0.
RECURSIVE BraceLoop(_, _, _, _)
BraceLoop(s, i, brace_count, end_pos) ==
  IF i > Len(s) THEN end_pos
  ELSE LET opened == IF s[i] = "{" THEN brace_count + 1 ELSE brace_count
       IN  IF s[i] = "}"
           THEN IF opened - 1 = 0 THEN i + 1
                ELSE BraceLoop(s, i + 1, opened - 1, end_pos)
           ELSE BraceLoop(s, i + 1, opened, end_pos)

\* A slip: end_pos starts at the end of the buffer, so an object that is
\* never closed yields the rest of the text.
BraceEndToEnd(s, pos) == BraceLoop(s, pos, 0, Len(s) + 1)

\* end_pos after the loop.
BraceEnd(s, pos) == BraceLoop(s, pos, 0, pos)

\* while (pos < length && (json[pos] == ' ' || json[pos] == '\t')) pos++
RECURSIVE SkipBlanks(_, _)
SkipBlanks(s, pos) ==
  IF pos <= Len(s) /\ s[pos] \in {" ", TAB} THEN SkipBlanks(s, pos + 1)
  ELSE pos

\* The string-value loop: up to the next '"', a backslash taking the next
\* character with it (n -> newline, t -> tab, anything else itself).
RECURSIVE ReadString(_, _, _)
ReadString(s, pos, value) ==
  IF pos <= Len(s) /\ s[pos] # Q
  THEN IF s[pos] = BS /\ pos + 1 <= Len(s)
       THEN LET c == s[pos + 1]
                d == IF c = "n" THEN NL ELSE IF c = "t" THEN TAB ELSE c
            IN  ReadString(s, pos + 2, Append(value, d))
       ELSE ReadString(s, pos + 1, Append(value, s[pos]))
  ELSE value

\* The numeric-or-boolean loop: up to ',' '}' ']' ' ' or newline.
RECURSIVE ReadScalar(_, _, _)
ReadScalar(s, pos, value) ==
  IF pos <= Len(s) /\ s[pos] \notin {",", "}", "]", " ", NL}
  THEN ReadScalar(s, pos + 1, Append(value, s[pos]))
  ELSE value

\* The single-key part of extractJsonValue.
SimpleExtract(json, key) ==
  LET kpos == Find(json, Quoted(key), 1)
  IN  IF kpos = NPOS THEN <<>>
      ELSE LET cpos == Find(json, <<":">>, kpos)
           IN  IF cpos = NPOS THEN <<>>
               ELSE LET pos == SkipBlanks(json, cpos + 1)
                    IN  IF pos > Len(json) THEN <<>>
                        ELSE IF json[pos] = Q
                             THEN ReadString(json, pos + 1, <<>>)
                             ELSE ReadScalar(json, pos, <<>>)

\* The nested case up to the opening brace: the index of the first '{' at
\* or after the quoted parent key, NPOS when either find() fails.
ParentBrace(json, parent_key) ==
  LET kpos == Find(json, Quoted(parent_key), 1)
  IN  IF kpos = NPOS THEN NPOS ELSE Find(json, <<"{">>, kpos)

RECURSIVE extractJsonValue(_, _)
extractJsonValue(json, key) ==
  LET dot_pos == Find(key, <<".">>, 1)
  IN  IF dot_pos # NPOS
      THEN LET parent_key == SubSeq(key, 1, dot_pos - 1)
               child_key == SubSeq(key, dot_pos + 1, Len(key))
               pos == ParentBrace(json, parent_key)
           IN  IF pos = NPOS THEN <<>>
               ELSE extractJsonValue(Substr(json, pos, BraceEnd(json, pos)),
                                     child_key)
      ELSE SimpleExtract(json, key)

\* ------------------------------------------------------------ atof / atol

DigitChars == <<"0", "1", "2", "3", "4", "5", "6", "7", "8", "9">>
IsDigit(c) == \E d \in 1..Len(DigitChars) : DigitChars[d] = c
DigitVal(c) == (CHOOSE d \in 1..Len(DigitChars) : DigitChars[d] = c) - 1

\* isspace() characters skipped in front of a number.
RECURSIVE SkipSpace(_, _)
SkipSpace(s, pos) ==
  IF pos <= Len(s) /\ s[pos] \in {" ", TAB, NL, CR} THEN SkipSpace(s, pos + 1)
  ELSE pos

\* <<value, index after the digits>> of the decimal digits from pos on.
RECURSIVE ReadDigits(_, _, _)
ReadDigits(s, pos, acc) ==
  IF pos <= Len(s) /\ IsDigit(s[pos])
  THEN ReadDigits(s, pos + 1, acc * 10 + DigitVal(s[pos]))
  ELSE <<acc, pos>>

\* atol(): blanks, an optional sign, digits; 0 when there are no digits.
Atol(s) ==
  LET p0 == SkipSpace(s, 1)
      signed == p0 <= Len(s) /\ s[p0] \in {"-", "+"}
      d == ReadDigits(s, IF signed THEN p0 + 1 ELSE p0, 0)
  IN  IF signed /\ s[p0] = "-" THEN 0 - d[1] ELSE d[1]

\* atof() in tenths (a float is kept to one decimal, further digits cut):
\* blanks, an optional sign, digits, an optional '.' and digits.
Atof(s) ==
  LET p0 == SkipSpace(s, 1)
      signed == p0 <= Len(s) /\ s[p0] \in {"-", "+"}
      d == ReadDigits(s, IF signed THEN p0 + 1 ELSE p0, 0)
      p1 == d[2]
      frac == IF p1 + 1 <= Len(s) /\ s[p1] = "." /\ IsDigit(s[p1 + 1])
              THEN DigitVal(s[p1 + 1]) ELSE 0
      mag == d[1] * 10 + frac
  IN  IF signed /\ s[p0] = "-" THEN 0 - mag ELSE mag

\* printf("%.0f") of a value in tenths: to the nearest integer, ties to even.
RoundTenths(t) ==
  LET mag == IF t < 0 THEN 0 - t ELSE t
      q == mag \div 10
      r == mag % 10
      up == r > 5 \/ (r = 5 /\ q % 2 = 1)
      m == IF up THEN q + 1 ELSE q
  IN  IF t < 0 THEN 0 - m ELSE m

\* ----------------------------------------------------------- fetchWeather

KeyMainTemp ==
  <<"m", "a", "i", "n", ".", "t", "e", "m", "p">>
KeyMainFeelsLike ==
  <<"m", "a", "i", "n", ".", "f", "e", "e", "l", "s", "_", "l", "i", "k",
    "e">>
KeyMainHumidity ==
  <<"m", "a", "i", "n", ".", "h", "u", "m", "i", "d", "i", "t", "y">>
KeyWindSpeed ==
  <<"w", "i", "n", "d", ".", "s", "p", "e", "e", "d">>
KeyDt ==
  <<"d", "t">>
KeyMain ==
  <<"m", "a", "i", "n">>
KeyDescription ==
  <<"d", "e", "s", "c", "r", "i", "p", "t", "i", "o", "n">>
KeyWeather ==
  <<"w", "e", "a", "t", "h", "e", "r">>
Unknown ==
  <<"U", "n", "k", "n", "o", "w", "n">>

\* Bodies the API can answer with on HTTP 200.
ResponseFull ==
  <<"{", "\"", "w", "e", "a", "t", "h", "e", "r", "\"", ":", "[", "{",
    "\"", "m", "a", "i", "n", "\"", ":", "\"", "R", "a", "i", "n", "\"",
    ",", "\"", "d", "e", "s", "c", "r", "i", "p", "t", "i", "o", "n", "\"",
    ":", "\"", "w", "e", "t", "\"", "}", "]", ",", "\"", "m", "a", "i", "n",
    "\"", ":", "{", "\"", "t", "e", "m", "p", "\"", ":", "5", ".", "4", "}",
    ",", "\"", "w", "i", "n", "d", "\"", ":", "{", "\"", "s", "p", "e", "e",
    "d", "\"", ":", "2", "}", ",", "\"", "d", "t", "\"", ":", "7", "}">>
ResponseSparse ==
  <<"{", "\"", "m", "a", "i", "n", "\"", ":", "{", "\"", "t", "e", "m", "p",
    "\"", ":", "-", "2", "}", "}">>
Responses == {ResponseFull, ResponseSparse}

\* How one call of fetchWeather can end.
Failures == {"init_fail", "transport_error", "http_error"}
Outcomes == Failures \cup {"ok"}

\* WeatherData(): the default-constructed record.
WeatherData ==
  [temp |-> 0, feels_like |-> 0, humidity |-> 0, wind_speed |-> 0,
   condition_main |-> Unknown, condition_description |-> <<>>,
   timestamp |-> 0, valid |-> FALSE]

\* The first object of the "weather" array, NPOS-guarded as in the code:
\* <<found, text of the object>>.
WeatherObj(response_data) ==
  LET weather_start == Find(response_data, Quoted(KeyWeather), 1)
      array_start == IF weather_start = NPOS THEN NPOS
                     ELSE Find(response_data, <<"[">>, weather_start)
      obj_start == IF array_start = NPOS THEN NPOS
                   ELSE Find(response_data, <<"{">>, array_start)
  IN  IF obj_start = NPOS THEN <<FALSE, <<>>>>
      ELSE <<TRUE, Substr(response_data, obj_start,
                          BraceEnd(response_data, obj_start))>>

\* The parse of a 200 response.
ParseWeather(response_data) ==
  LET temp_str == extractJsonValue(response_data, KeyMainTemp)
      feels_str == extractJsonValue(response_data, KeyMainFeelsLike)
      humidity_str == extractJsonValue(response_data, KeyMainHumidity)
      wobj == WeatherObj(response_data)
      wind_str == extractJsonValue(response_data, KeyWindSpeed)
      dt_str == extractJsonValue(response_data, KeyDt)
  IN  [temp |-> IF temp_str # <<>> THEN Atof(temp_str) ELSE WeatherData.temp,
       feels_like |-> IF feels_str # <<>> THEN Atof(feels_str)
                      ELSE WeatherData.feels_like,
       humidity |-> IF humidity_str # <<>> THEN Atof(humidity_str)
                    ELSE WeatherData.humidity,
       wind_speed |-> IF wind_str # <<>> THEN Atof(wind_str)
                      ELSE WeatherData.wind_speed,
       condition_main |-> IF wobj[1] THEN extractJsonValue(wobj[2], KeyMain)
                          ELSE WeatherData.condition_main,
       condition_description |->
         IF wobj[1] THEN extractJsonValue(wobj[2], KeyDescription)
         ELSE WeatherData.condition_description,
       timestamp |-> IF dt_str # <<>> THEN Atol(dt_str)
                     ELSE WeatherData.timestamp,
       valid |-> TRUE]

\* What fetchWeather returns: the default record on any failure, the parsed
\* record on HTTP 200.
fetchWeather(outcome, response_data) ==
  IF outcome \in Failures THEN WeatherData ELSE ParseWeather(response_data)

\* ------------------------------------------------------------ main() state

VARIABLES
  now,                 \* the wall clock (CLOCK_REALTIME), in whole seconds
  start,               \* time(NULL) at startup
  weather_refresh,     \* --weather-refresh
  next_time,           \* next_time.tv_sec, the absolute deadline
  tm,                  \* the broken-down time localtime_r() last produced
  last_weather_fetch,
  current_weather,
  interrupt_received,
  pc,                  \* where main() is in its loop
  offscreen,           \* the canvas being drawn
  displayed,           \* the canvas the matrix shows
  res,                 \* whether the latest fetchWeather call succeeded
  ever_ok,             \* some fetchWeather call has succeeded
  attempts,            \* deadlines of the ticks that called fetchWeather
  swaps,               \* one record per SwapOnVSync call
  swap_at,             \* the wall clock at the latest SwapOnVSync call
  steps,               \* the statements run so far in the current iteration
  stop_at,             \* where main() was when the flag was first set
  json, key,           \* arguments of a direct extractJsonValue call
  value,               \* its result
  called,              \* whether that call has been made
  doc                  \* the description json was generated from

schedVars ==
  <<now, start, weather_refresh, next_time, tm, last_weather_fetch,
    current_weather, interrupt_received, pc, offscreen, displayed, res,
    ever_ok, attempts, swaps, swap_at, steps, stop_at>>
extractVars == <<json, key, value, called, doc>>
vars == <<schedVars, extractVars>>

\* The text of the weather line: the snprintf arguments, or the status text.
Loading == <<"L", "o", "a", "d", "i", "n", "g", ".", ".", ".">>
WeatherLine(w) ==
  IF w.valid THEN <<RoundTenths(w.temp), w.condition_main>> ELSE Loading

\* A canvas after Fill() is <<>>; a drawn one is <<clock time, weather line>>.
Blank == <<>>
Shown(f) == f[1]
Line(f) == f[2]

\* A slip: '>' for '>=', the refresh comes one tick late.
RefreshDueLate(nt, last, refresh) == nt - last > refresh

\* if (next_time.tv_sec - last_weather_fetch >= weather_refresh)
RefreshDue(nt, last, refresh) == nt - last >= refresh

\* A slip: the next deadline is taken from the current clock (a relative
\* sleep), so a slow iteration shifts every later deadline.
NextDeadlineFromClock(nt, clock) == clock + 1

\* next_time.tv_sec += 1
NextDeadline(nt, clock) == nt + 1

\* A slip: the wait for the deadline comes first, the refresh and the
\* drawing after it.
NextPcWaitFirst(p, stop, due) ==
  CASE p = "loop" -> IF stop THEN "done" ELSE "fill"
    [] p = "fill" -> "wait"
    [] p = "wait" -> "check"
    [] p = "check" -> IF due THEN "fetch" ELSE "draw"
    [] p = "fetch" -> "draw"
    [] p = "draw" -> "swap"
    [] p = "swap" -> "advance"
    [] p = "advance" -> "loop"
    [] OTHER -> p

\* A slip: the stop flag is polled again after the drawing, and the
\* iteration is abandoned there, before its wait and swap.
NextPcCutsShort(p, stop, due) ==
  CASE p = "loop" -> IF stop THEN "done" ELSE "fill"
    [] p = "fill" -> "check"
    [] p = "check" -> IF due THEN "fetch" ELSE "draw"
    [] p = "fetch" -> "draw"
    [] p = "draw" -> IF stop THEN "done" ELSE "wait"
    [] p = "wait" -> "swap"
    [] p = "swap" -> "advance"
    [] p = "advance" -> "loop"
    [] OTHER -> p

\* The order of the statements of the loop body: the position after the one
\* at p, given the stop flag and whether the refresh is due.
NextPc(p, stop, due) ==
  CASE p = "loop" -> IF stop THEN "done" ELSE "fill"
    [] p = "fill" -> "check"
    [] p = "check" -> IF due THEN "fetch" ELSE "draw"
    [] p = "fetch" -> "draw"
    [] p = "draw" -> "wait"
    [] p = "wait" -> "swap"
    [] p = "swap" -> "advance"
    [] p = "advance" -> "loop"
    [] OTHER -> p

Due == RefreshDue(next_time, last_weather_fetch, weather_refresh)
Step == pc' = NextPc(pc, interrupt_received, Due)

NoDoc == [kind |-> "none"]

SchedInit ==
  /\ start \in 1..MaxStart
  /\ now = start
  /\ next_time = start
  /\ weather_refresh \in 0..MaxRefresh
  /\ tm = 0
  /\ last_weather_fetch = 0
  /\ current_weather = WeatherData
  /\ interrupt_received = FALSE
  /\ pc = "loop"
  /\ offscreen = Blank
  /\ displayed = Blank
  /\ res = "none"
  /\ ever_ok = FALSE
  /\ attempts = <<>>
  /\ swaps = <<>>
  /\ swap_at = 0
  /\ steps = <<>>
  /\ stop_at = ""

Init ==
  /\ SchedInit
  /\ json = <<>> /\ key = <<>> /\ value = <<>> /\ called = FALSE
  /\ doc = NoDoc

\* The wall clock moves on by a second, whatever main() is doing.
Tick ==
  /\ now < start + MaxTicks
  /\ now' = now + 1
  /\ UNCHANGED <<start, weather_refresh, next_time, tm, last_weather_fetch,
                 current_weather, interrupt_received, pc, offscreen,
                 displayed, res, ever_ok, attempts, swaps, steps,
                 swap_at, stop_at>>
  /\ UNCHANGED extractVars

\* SIGINT or SIGTERM is delivered: InterruptHandler sets the flag, and a
\* clock_nanosleep in progress returns at once (EINTR, never restarted).
Interrupt ==
  /\ pc # "done"
  /\ ~interrupt_received \/ pc = "wait"
  /\ interrupt_received' = TRUE
  /\ stop_at' = IF interrupt_received THEN stop_at ELSE pc
  /\ IF pc = "wait"
     THEN /\ pc' = NextPc(pc, interrupt_received, Due)
          /\ steps' = Append(steps, "wait")
     ELSE UNCHANGED <<pc, steps>>
  /\ UNCHANGED <<now, start, weather_refresh, next_time, tm,
                 last_weather_fetch, current_weather, offscreen, displayed,
                 res, ever_ok, attempts, swaps,
                 swap_at>>
  /\ UNCHANGED extractVars

\* while (!interrupt_received)
LoopCheck ==
  /\ pc = "loop"
  /\ interrupt_received \/ next_time - start < MaxTicks
  /\ Step
  /\ steps' = IF pc' = "done" THEN steps ELSE <<>>
  /\ UNCHANGED <<now, start, weather_refresh, next_time, tm,
                 last_weather_fetch, current_weather, interrupt_received,
                 offscreen, displayed, res, ever_ok, attempts, swaps,
                 swap_at, stop_at>>
  /\ UNCHANGED extractVars

\* offscreen->Fill(...); localtime_r(&next_time.tv_sec, &tm);
Fill ==
  /\ pc = "fill"
  /\ offscreen' = Blank
  /\ tm' = next_time
  /\ Step
  /\ steps' = Append(steps, "fill")
  /\ UNCHANGED <<now, start, weather_refresh, next_time, last_weather_fetch,
                 current_weather, interrupt_received, displayed, res, ever_ok, attempts, swaps,
                 swap_at, stop_at>>
  /\ UNCHANGED extractVars

\* The refresh test; when it holds, fetchWeather is called.
RefreshCheck ==
  /\ pc = "check"
  /\ Step
  /\ attempts' = IF Due THEN Append(attempts, next_time) ELSE attempts
  /\ steps' = IF Due THEN Append(steps, "refresh") ELSE steps
  /\ UNCHANGED <<now, start, weather_refresh, next_time, tm,
                 last_weather_fetch, current_weather, interrupt_received,
                 offscreen, displayed, res, ever_ok, swaps,
                 swap_at, stop_at>>
  /\ UNCHANGED extractVars

\* fetchWeather returns; its result is assigned and the time recorded.
FetchReturn ==
  /\ pc = "fetch"
  /\ \E outcome \in Outcomes, response_data \in Responses :
       \* a failed call parses no body, so one body stands for all
       /\ outcome \in Failures => response_data = ResponseSparse
       /\ current_weather' = fetchWeather(outcome, response_data)
       /\ res' = IF outcome \in Failures THEN "failed" ELSE "ok"
       /\ ever_ok' = (ever_ok \/ outcome = "ok")
  /\ last_weather_fetch' = next_time
  /\ Step
  /\ UNCHANGED <<now, start, weather_refresh, next_time, tm,
                 interrupt_received, offscreen, displayed, attempts, swaps,
                 steps,
                 swap_at, stop_at>>
  /\ UNCHANGED extractVars

\* The clock line(s) and the weather line are drawn on the offscreen canvas.
Draw ==
  /\ pc = "draw"
  /\ offscreen' = <<tm, WeatherLine(current_weather)>>
  /\ Step
  /\ steps' = Append(steps, "draw")
  /\ UNCHANGED <<now, start, weather_refresh, next_time, tm,
                 last_weather_fetch, current_weather, interrupt_received,
                 displayed, res, ever_ok, attempts, swaps,
                 swap_at, stop_at>>
  /\ UNCHANGED extractVars

\* clock_nanosleep(CLOCK_REALTIME, TIMER_ABSTIME, &next_time) returns
\* because the clock has reached the deadline.
WaitReturn ==
  /\ pc = "wait"
  /\ now >= next_time
  /\ Step
  /\ steps' = Append(steps, "wait")
  /\ UNCHANGED <<now, start, weather_refresh, next_time, tm,
                 last_weather_fetch, current_weather, interrupt_received,
                 offscreen, displayed, res, ever_ok, attempts, swaps,
                 swap_at, stop_at>>
  /\ UNCHANGED extractVars

\* offscreen = matrix->SwapOnVSync(offscreen)
Swap ==
  /\ pc = "swap"
  /\ displayed' = offscreen
  /\ offscreen' = displayed
  /\ swaps' = Append(swaps, [shown |-> Shown(offscreen),
                             deadline |-> next_time])
  /\ swap_at' = now
  /\ Step
  /\ steps' = Append(steps, "swap")
  /\ UNCHANGED <<now, start, weather_refresh, next_time, tm,
                 last_weather_fetch, current_weather, interrupt_received,
                 res, ever_ok, attempts, stop_at>>
  /\ UNCHANGED extractVars

\* next_time.tv_sec += 1
Advance ==
  /\ pc = "advance"
  /\ next_time' = NextDeadline(next_time, now)
  /\ Step
  /\ steps' = Append(steps, "advance")
  /\ UNCHANGED <<now, start, weather_refresh, tm, last_weather_fetch,
                 current_weather, interrupt_received, offscreen, displayed,
                 res, ever_ok, attempts, swaps,
                 swap_at, stop_at>>
  /\ UNCHANGED extractVars

Program ==
  \/ LoopCheck
  \/ Fill
  \/ RefreshCheck
  \/ FetchReturn
  \/ Draw
  \/ WaitReturn
  \/ Swap
  \/ Advance

Next ==
  \/ Tick
  \/ Interrupt
  \/ LoopCheck
  \/ Fill
  \/ RefreshCheck
  \/ FetchReturn
  \/ Draw
  \/ WaitReturn
  \/ Swap
  \/ Advance

Spec == Init /\ [][Next]_vars

\* main() keeps running, every fetchWeather and clock_nanosleep returns, and
\* the clock keeps moving.
FairSpec == Spec /\ WF_vars(Program) /\ WF_vars(Tick)

\* --------------------------------------------------------- scheduler claims

\* C1: a refresh attempt that fails leaves the cached weather record as it
\* was before the attempt, and a frame is drawn with "Loading..." only when
\* no refresh has succeeded so far.
C1_FailedRefreshKeepsRecord ==
  /\ [][pc = "fetch" /\ pc' = "draw" /\ res' = "failed"
          => current_weather' = current_weather]_vars
  /\ [][pc = "draw" /\ pc' = "wait" /\ Line(offscreen') = Loading
          => ~ever_ok]_vars

\* C2: the deadlines the loop waited for are start, start+1, ... in this
\* order, one per iteration, and the deadline after N iterations is start+N.
C2_DeadlineAdvancesByOne ==
  /\ \A i \in 1..Len(swaps) : swaps[i].deadline = start + i - 1
  /\ next_time = start + Len(swaps) - (IF pc = "advance" THEN 1 ELSE 0)

\* Two iterations have completed, the latest one late: its frame was swapped
\* after its deadline had passed.
C2_Witness ==
  /\ Len(swaps) >= 2
  /\ swap_at > swaps[Len(swaps)].deadline
  /\ pc = "loop"

\* C3: the swapped frames show start, start+1, ... in this order, none
\* skipped and none repeated, and the frame showing s is swapped only when
\* the wall clock has reached s.
C3_OneFramePerSecond ==
  \A i \in 1..Len(swaps) :
    /\ swaps[i].shown = start + i - 1
    /\ i = Len(swaps) => swap_at >= swaps[i].shown

\* The deadlines whose refresh test has been made.
Tested ==
  {d \in start..next_time :
     d < next_time \/ pc \in {"fetch", "draw", "wait", "swap", "advance"}}

\* The time recorded for the attempt before the i-th (0 at startup).
PrevAttempt(i) == IF i = 1 THEN 0 ELSE attempts[i - 1]

\* C4: with a refresh interval R >= 1, an attempt is made in a tick only if
\* its deadline is at least R after the time recorded for the previous
\* attempt (so at most one per tick), the time recorded for an attempt is
\* its tick's deadline whether it failed or not, and no tick whose deadline
\* is R or more after the previous attempt goes without an attempt.
C4_RefreshEveryInterval ==
  weather_refresh >= 1 =>
    /\ \A i \in 1..Len(attempts) :
         /\ attempts[i] \in Tested
         /\ attempts[i] - PrevAttempt(i) >= weather_refresh
         /\ \A d \in Tested :
              d < attempts[i] => d - PrevAttempt(i) < weather_refresh
    /\ \A d \in Tested :
         d > PrevAttempt(Len(attempts) + 1)
           => d - PrevAttempt(Len(attempts) + 1) < weather_refresh
    /\ pc # "fetch" => last_weather_fetch = PrevAttempt(Len(attempts) + 1)

\* Two attempts, both failed, the second exactly R = 2 after the first.
C4_Witness ==
  /\ weather_refresh = 2
  /\ Len(attempts) = 2
  /\ attempts[2] = attempts[1] + 2
  /\ ~ever_ok
  /\ pc = "draw"

\* The order of the statements of one iteration, with and without refresh.
TickWithRefresh == <<"fill", "refresh", "draw", "wait", "swap", "advance">>
TickNoRefresh == <<"fill", "draw", "wait", "swap", "advance">>
IsPrefix(a, b) == Len(a) <= Len(b) /\ SubSeq(b, 1, Len(a)) = a

InTickOrder ==
  {<<"fill", "check">>, <<"check", "fetch">>, <<"check", "draw">>,
   <<"fetch", "draw">>, <<"draw", "wait">>, <<"wait", "swap">>,
   <<"swap", "advance">>, <<"advance", "loop">>}

\* C9: the stop flag takes effect only at the top of the loop: an iteration
\* in progress goes on through its statements in order whatever the flag
\* is, the loop is left only from its top and only with the flag set, with
\* the flag set the top of the loop starts no iteration, after the exit
\* nothing is fetched, drawn or swapped, and once the flag is set the loop
\* exits.
C9_StopOnlyAtTickBoundary ==
  /\ [][pc \notin {"loop", "done"} /\ pc' # pc
          => <<pc, pc'>> \in InTickOrder]_vars
  /\ [][pc' = "done" /\ pc # "done"
          => pc = "loop" /\ interrupt_received]_vars
  /\ [][pc = "loop" /\ interrupt_received => pc' \in {"loop", "done"}]_vars
  /\ [][pc = "done"
          => UNCHANGED <<pc, attempts, swaps, offscreen, displayed,
                         current_weather, next_time>>]_vars
  /\ [](pc = "done" => steps \in {<<>>, TickWithRefresh, TickNoRefresh})
  /\ (interrupt_received ~> pc = "done")

\* The flag was set when the iteration was about to test the refresh; the
\* iteration still fetched, drew, waited, swapped and advanced, and then
\* the loop exited.
C9_Witness ==
  /\ pc = "done"
  /\ stop_at = "check"
  /\ steps = TickWithRefresh

\* The deadlines whose wait has returned.
Waited ==
  {swaps[i].deadline : i \in 1..Len(swaps)}
    \cup (IF pc \in {"swap", "advance"} THEN {next_time} ELSE {})

\* C10 as stated, for the ticks after the first: the refresh of a tick
\* starts only after the wait for that tick's deadline has returned.
C10_RefreshAfterWait ==
  pc = "fetch" /\ swaps # <<>> => next_time \in Waited

\* C10 as amended: the statements of a tick run in the order fill, refresh
\* (only if the interval has elapsed), draw, wait, swap, advance; the
\* refresh and the drawing of a tick come before the wait for that tick's
\* deadline and after the swap of every earlier tick; a refresh is in
\* progress only between the refresh test and the drawing.
C10_TickOrder ==
  /\ IsPrefix(steps, TickWithRefresh) \/ IsPrefix(steps, TickNoRefresh)
  /\ pc \in {"fetch", "draw"} =>
       /\ next_time \notin Waited
       /\ Len(swaps) = next_time - start
  /\ pc = "fetch" => steps = <<"fill", "refresh">>
  /\ pc = "draw" => steps \in {<<"fill", "refresh">>, <<"fill">>}
  /\ pc \in {"draw", "wait", "swap", "advance"} =>
       ("refresh" \in {steps[i] : i \in 1..Len(steps)}
          <=> attempts # <<>> /\ attempts[Len(attempts)] = next_time)

\* A refresh is in progress in a tick after the first, before the clock has
\* reached that tick's deadline.
C10_Witness ==
  /\ pc = "fetch"
  /\ swaps # <<>>
  /\ now < next_time

\* ------------------------------------------- extractJsonValue called alone

SeqsUpTo(S, n) == UNION {[1..m -> S] : m \in 0..n}

RECURSIVE Flatten(_)
Flatten(ss) == IF ss = <<>> THEN <<>> ELSE Head(ss) \o Flatten(Tail(ss))

KeyTemp == <<"t", "e", "m", "p">>
KeySpeed == <<"s", "p", "e", "e", "d">>
KeyOther == <<"o", "t", "h", "e", "r">>
Dotted(parent, child) == parent \o <<".">> \o child

\* A JSON value: a string (raw is the text between the quotes, escapes as
\* written), a number (raw is the literal) or an object with the one member
\* ck (raw is its numeric literal).
StringRaws == {<<"b">>, <<"x", ":", "y">>, <<"a", BS, "n", "b">>}
NumberRaws == {<<"1">>, <<"2", "1", ".", "5">>}
StringValues == {[type |-> "string", raw |-> r, ck |-> <<>>] : r \in StringRaws}
NumberValues == {[type |-> "number", raw |-> r, ck |-> <<>>] : r \in NumberRaws}
ObjectValues ==
  {[type |-> "object", raw |-> <<"5">>, ck |-> KeyTemp],
   [type |-> "object", raw |-> <<"2">>, ck |-> KeySpeed]}

\* JSON whitespace put between ':' and a value, and between a value and the
\* ',' or '}' after it.
WsBefore == {<<>>, <<" ">>, <<NL>>}
WsAfter == {<<>>, <<" ">>, <<TAB>>}

FlatKeys == {<<"a">>, <<"b">>, <<"c">>}
ParentKeys == {KeyMain, KeyOther}
ChildKeys == {KeyTemp, KeySpeed}

DistinctKeys(ms) ==
  \A i \in 1..Len(ms), j \in 1..Len(ms) : i # j => ms[i].k # ms[j].k

Objects(keys, values, n) ==
  {ms \in SeqsUpTo([k : keys, v : values], n) : Len(ms) >= 1 /\ DistinctKeys(ms)}

\* Well-formed single-level objects.
FlatDocs ==
  {[kind |-> "flat", members |-> ms, before |-> w1, after |-> w2, toks |-> <<>>] :
     ms \in Objects(FlatKeys, StringValues \cup NumberValues, MaxMembers),
     w1 \in WsBefore, w2 \in WsAfter}

\* Well-formed objects whose members are numbers or one-member objects.
NestedDocs ==
  {[kind |-> "nested", members |-> ms, before |-> <<>>, after |-> <<>>,
    toks |-> <<>>] :
     ms \in Objects(ParentKeys, {[type |-> "number", raw |-> <<"1">>,
                                  ck |-> <<>>]} \cup ObjectValues, 2)}

\* Any run of tokens, well-formed or not (truncated, unbalanced).
Tokens ==
  {Quoted(KeyMain) \o <<":">>, Quoted(KeyTemp) \o <<":", "5">>,
   <<"{">>, <<"}">>, <<",">>}
TokenDocs ==
  {[kind |-> "tokens", members |-> <<>>, before |-> <<>>, after |-> <<>>,
    toks |-> ts] : ts \in SeqsUpTo(Tokens, MaxTokens)}

Docs == FlatDocs \cup NestedDocs \cup TokenDocs

SerValue(v, w1, w2) ==
  CASE v.type = "string" -> w1 \o Quoted(v.raw) \o w2
    [] v.type = "number" -> w1 \o v.raw \o w2
    [] v.type = "object" ->
         <<"{">> \o Quoted(v.ck) \o <<":">> \o v.raw \o <<"}">>

RECURSIVE SerMembers(_, _, _, _)
SerMembers(ms, i, w1, w2) ==
  IF i > Len(ms) THEN <<>>
  ELSE (IF i > 1 THEN <<",">> ELSE <<>>)
         \o Quoted(ms[i].k) \o <<":">> \o SerValue(ms[i].v, w1, w2)
         \o SerMembers(ms, i + 1, w1, w2)

\* The text of a document.
Serialize(d) ==
  IF d.kind = "tokens" THEN Flatten(d.toks)
  ELSE <<"{">> \o SerMembers(d.members, 1, d.before, d.after) \o <<"}">>

\* The key paths asked of a document.
Paths(d) ==
  CASE d.kind = "flat" -> FlatKeys
    [] d.kind = "nested" -> {Dotted(p, c) : p \in ParentKeys, c \in ChildKeys}
    [] OTHER -> {Dotted(KeyMain, KeyTemp), Dotted(KeyMain, KeyMain)}

ExtractInit ==
  /\ SchedInit
  /\ start = MaxStart
  /\ weather_refresh = MaxRefresh
  /\ doc \in Docs
  /\ json = Serialize(doc)
  /\ key \in Paths(doc)
  /\ value = <<>>
  /\ called = FALSE

\* value = extractJsonValue(json, key)
Extract ==
  /\ ~called
  /\ value' = extractJsonValue(json, key)
  /\ called' = TRUE
  /\ UNCHANGED <<json, key, doc>>
  /\ UNCHANGED schedVars

ExtractNext == Extract

ExtractSpec == ExtractInit /\ [][ExtractNext]_vars

\* --------------------------------------------------------- extractor claims

\* The string a JSON string literal denotes, by the escapes the claim names:
\* \n is a newline, \t a tab, any other \x is x.
RECURSIVE Decoded(_)
Decoded(raw) ==
  IF raw = <<>> THEN <<>>
  ELSE IF Head(raw) = BS /\ Len(raw) >= 2
       THEN (IF raw[2] = "n" THEN <<NL>>
             ELSE IF raw[2] = "t" THEN <<TAB>> ELSE <<raw[2]>>)
              \o Decoded(SubSeq(raw, 3, Len(raw)))
       ELSE <<Head(raw)>> \o Decoded(Tail(raw))

Chars(s) == {s[i] : i \in 1..Len(s)}

\* C5: on a well-formed single-level object, the result for a key that has
\* a string value is that value decoded, with no backslash left.
C5_StringValueDecoded ==
  called /\ doc.kind = "flat" =>
    \A i \in 1..Len(doc.members) :
      doc.members[i].k = key /\ doc.members[i].v.type = "string"
        => /\ value = Decoded(doc.members[i].v.raw)
           /\ BS \notin Chars(value)

\* The value of child under parent in a nested document: <<>> when parent
\* is missing, is not an object, or has no such child.
ChildValue(d, parent, child) ==
  LET hit == {i \in 1..Len(d.members) :
                /\ d.members[i].k = parent
                /\ d.members[i].v.type = "object"
                /\ d.members[i].v.ck = child}
  IN  IF hit = {} THEN <<>> ELSE d.members[CHOOSE i \in hit : TRUE].v.raw

\* C6: for a path parent.child the result is the value of child inside the
\* object that is the value of parent, and empty when there is none, even
\* if another object of the document has a key named child.
C6_ChildOnlyFromParent ==
  called /\ doc.kind = "nested" =>
    \A p \in ParentKeys, c \in ChildKeys :
      key = Dotted(p, c) => value = ChildValue(doc, p, c)

\* The brace depth of s[from..to]: '{' counted up, '}' counted down.
Depth(s, from, to) ==
  Cardinality({i \in from..to : s[i] = "{"})
    - Cardinality({i \in from..to : s[i] = "}"})

\* The object opened by the first '{' after the quoted parent key is never
\* closed: the depth stays above 0 to the end of the text.
Unclosed(s, parent) ==
  LET pos == ParentBrace(s, parent)
  IN  /\ pos # NPOS
      /\ \A j \in pos..Len(s) : Depth(s, pos, j) > 0

ParentOf(path) == SubSeq(path, 1, Find(path, <<".">>, 1) - 1)
ChildOf(path) == SubSeq(path, Find(path, <<".">>, 1) + 1, Len(path))

\* C7: for a path parent.child, when the object opened after the parent key
\* is never closed, the result is empty.
C7_UnclosedParentIsAbsent ==
  called /\ Find(key, <<".">>, 1) # NPOS /\ Unclosed(json, ParentOf(key))
    => value = <<>>

\* The parent object is unclosed, the child key and its value are in the
\* truncated text, and the result is empty.
C7_Witness ==
  /\ called
  /\ key = Dotted(KeyMain, KeyTemp)
  /\ Unclosed(json, KeyMain)
  /\ Find(json, Quoted(KeyTemp) \o <<":", "5">>, ParentBrace(json, KeyMain))
       # NPOS
  /\ value = <<>>

\* C8: on a well-formed single-level object, the result for a key that has
\* a numeric value is the literal, with no whitespace around it.
C8_NumberLiteralExact ==
  called /\ doc.kind = "flat" =>
    \A i \in 1..Len(doc.members) :
      doc.members[i].k = key /\ doc.members[i].v.type = "number"
        => value = doc.members[i].v.raw

====
